---- MODULE Spec2Model ----
(***************************************************************************)
(* StudentAgent (src/agents/24250666_agent.py): one participant of a       *)
(* Resistance game, driven by an orchestrator through callbacks.           *)
(*                                                                         *)
(* Suspicion scores are Python floats built from the literals 0.05, 0.1,   *)
(* 0.2, 0.3, 0.7, 1.0 and the quotients num_betrayals / len(potential).    *)
(* They are modelled exactly, as integers counting sixtieths (1.0 is 60,   *)
(* 0.05 is 3, 1/3 is 20, 1/4 is 15): every quotient with a divisor of 1..6 *)
(* is a whole number of sixtieths.  Floating-point rounding is not         *)
(* modelled.                                                               *)
(*                                                                         *)
(* A mission (team) handed in by the orchestrator is a duplicate-free list *)
(* that the code uses only through membership, len() and loops whose       *)
(* per-player updates are independent: it is modelled as a set of players. *)
(* The team returned by propose_mission is a list and is modelled as a     *)
(* sequence.  spy_list is used only through membership and set(): a set.   *)
(***************************************************************************)
EXTENDS Integers, Sequences, FiniteSets, TLC

VARIABLES agents, stage, call, ret

vars == <<agents, stage, call, ret>>

(* ---------------------------- bounds ----------------------------------- *)
MinPlayers == 2
MaxPlayers == 3
MaxOwn == 1
MaxSpy == 1
MaxLog == 2
MaxBetrayals == 1
MaxK == 2
TablePlayers == 4
TableBetrayals == 2

(* ------------------- program constants, in sixtieths ------------------- *)
One == 60
VoteNudge == 3
ConfirmAbove == 42
SuccessDrop == 6
BaseThreshold == 18
ThresholdStep == 6
Critical == 2
SpyAdjust == 18
LoyalBlame == 18
Exonerate == 12

Instances == {1, 2}

Players(n) == 0 .. (n - 1)

Min(a, b) == IF a < b THEN a ELSE b

Max(a, b) == IF a > b THEN a ELSE b

(* ---------------------------- __init__ --------------------------------- *)
InitAgent ==
  [ number_of_players |-> 0,
    player_number |-> 0,
    spy_list |-> {},
    is_spy_player |-> FALSE,
    suspicion |-> [p \in {} |-> 0],
    known_spies |-> {},
    vote_history |-> <<>>,
    mission_history |-> <<>>,
    successful_missions |-> 0,
    failed_missions |-> 0 ]

(* new_game that forgets to empty known_spies and mission_history          *)
new_game_keeps_memory(s, number_of_players, player_number, spy_list) ==
  [ number_of_players |-> number_of_players,
    player_number |-> player_number,
    spy_list |-> spy_list,
    is_spy_player |-> (player_number \in spy_list),
    suspicion |-> [p \in Players(number_of_players) \ {player_number} |-> 0],
    known_spies |-> s.known_spies,
    vote_history |-> <<>>,
    mission_history |-> s.mission_history,
    successful_missions |-> 0,
    failed_missions |-> 0 ]

(* ---------------------------- new_game --------------------------------- *)
new_game(s, number_of_players, player_number, spy_list) ==
  [ number_of_players |-> number_of_players,
    player_number |-> player_number,
    spy_list |-> spy_list,
    is_spy_player |-> (player_number \in spy_list),
    suspicion |-> [p \in Players(number_of_players) \ {player_number} |-> 0],
    known_spies |-> {},
    vote_history |-> <<>>,
    mission_history |-> <<>>,
    successful_missions |-> 0,
    failed_missions |-> 0 ]

is_spy(s) == s.is_spy_player

(* What a callback hands back: a value, or an exception that propagates.   *)
Returned(v) == [raised |-> FALSE, value |-> v]

Raised(e) == [raised |-> TRUE, value |-> e]

NoResult == [raised |-> FALSE, value |-> "None"]

(* random.shuffle(xs): any arrangement of xs.                              *)
Shuffles(S) ==
  { f \in [1 .. Cardinality(S) -> S] : \A i, j \in DOMAIN f : f[i] = f[j] => i = j }

(* ------------------------- propose_mission ----------------------------- *)
(* sorted(self.suspicion.keys(), key=...): a stable sort of the keys,      *)
(* which new_game inserted in ascending player order.                      *)
RECURSIVE SortedBySuspicion(_, _)
SortedBySuspicion(suspicion, keys) ==
  IF keys = {} THEN <<>>
  ELSE LET first == CHOOSE p \in keys : \A q \in keys :
                      \/ suspicion[p] < suspicion[q]
                      \/ suspicion[p] = suspicion[q] /\ p <= q
       IN  <<first>> \o SortedBySuspicion(suspicion, keys \ {first})

(* line 74: the failed missions of mission_history that player was on.     *)
FailedMissionsOf(s, player) ==
  Cardinality({ i \in DOMAIN s.mission_history :
                  /\ ~ s.mission_history[i].success
                  /\ player \in s.mission_history[i].mission })

(* team[:team_size] for team_size >= 0                                     *)
Prefix(team, team_size) == SubSeq(team, 1, Min(Len(team), team_size))

(* lines 50-55: for player in candidates ... add spies                     *)
RECURSIVE SpyLoop(_, _, _, _, _, _)
SpyLoop(s, team, candidates, team_size, spies_in_team, betrayals_required) ==
  IF candidates = <<>> \/ Len(team) >= team_size THEN team
  ELSE LET player == Head(candidates) IN
       IF player \in s.spy_list /\ spies_in_team < betrayals_required
       THEN SpyLoop(s, Append(team, player), Tail(candidates), team_size,
                    spies_in_team + 1, betrayals_required)
       ELSE SpyLoop(s, team, Tail(candidates), team_size,
                    spies_in_team, betrayals_required)

(* lines 59-62 and 80-83: append the candidates in order until full        *)
RECURSIVE FillLoop(_, _, _)
FillLoop(team, candidates, team_size) ==
  IF candidates = <<>> \/ Len(team) >= team_size THEN team
  ELSE FillLoop(Append(team, Head(candidates)), Tail(candidates), team_size)

(* lines 69-76: add the unconfirmed players with no failed mission         *)
RECURSIVE CleanLoop(_, _, _, _)
CleanLoop(s, team, candidates, team_size) ==
  IF candidates = <<>> \/ Len(team) >= team_size THEN team
  ELSE LET player == Head(candidates) IN
       IF player \notin s.known_spies /\ FailedMissionsOf(s, player) = 0
       THEN CleanLoop(s, Append(team, player), Tail(candidates), team_size)
       ELSE CleanLoop(s, team, Tail(candidates), team_size)

InSeq(x, seq) == \E i \in DOMAIN seq : seq[i] = x

(* the spy's proposal that does not count self among the spies seated      *)
ProposeAsSpy_self_uncounted(s, team_size, betrayals_required, shuffle1, shuffle2) ==
  LET candidates == shuffle1
      team1 == SpyLoop(s, <<s.player_number>>, candidates, team_size, 0,
                       betrayals_required)
      non_spies_candidates == shuffle2
      team2 == FillLoop(team1, non_spies_candidates, team_size)
  IN  Prefix(team2, team_size)

(* lines 44-63; shuffle1 and shuffle2 are the outcomes of the two          *)
(* random.shuffle calls.                                                   *)
ProposeAsSpy(s, team_size, betrayals_required, shuffle1, shuffle2) ==
  LET candidates == shuffle1
      team1 == SpyLoop(s, <<s.player_number>>, candidates, team_size, 1,
                       betrayals_required)
      non_spies_candidates == shuffle2
      team2 == FillLoop(team1, non_spies_candidates, team_size)
  IN  Prefix(team2, team_size)

(* the loyalist's proposal with the candidates left in player order        *)
ProposeAsResistance_unsorted(s, team_size) ==
  LET candidates == SortedBySuspicion([p \in DOMAIN s.suspicion |-> 0],
                                      DOMAIN s.suspicion)
      team1 == CleanLoop(s, <<s.player_number>>, candidates, team_size)
      remaining_candidates ==
        SelectSeq(candidates,
                  LAMBDA p : ~ InSeq(p, team1) /\ p \notin s.known_spies)
      team2 == IF Len(team1) < team_size
               THEN FillLoop(team1, remaining_candidates, team_size)
               ELSE team1
  IN  Prefix(team2, team_size)

(* the loyalist's proposal whose second pass does not skip the players     *)
(* already seated                                                          *)
ProposeAsResistance_reseats(s, team_size) ==
  LET candidates == SortedBySuspicion(s.suspicion, DOMAIN s.suspicion)
      team1 == CleanLoop(s, <<s.player_number>>, candidates, team_size)
      remaining_candidates ==
        SelectSeq(candidates, LAMBDA p : p \notin s.known_spies)
      team2 == IF Len(team1) < team_size
               THEN FillLoop(team1, remaining_candidates, team_size)
               ELSE team1
  IN  Prefix(team2, team_size)

(* lines 65-84 *)
ProposeAsResistance(s, team_size) ==
  LET candidates == SortedBySuspicion(s.suspicion, DOMAIN s.suspicion)
      team1 == CleanLoop(s, <<s.player_number>>, candidates, team_size)
      remaining_candidates ==
        SelectSeq(candidates,
                  LAMBDA p : ~ InSeq(p, team1) /\ p \notin s.known_spies)
      team2 == IF Len(team1) < team_size
               THEN FillLoop(team1, remaining_candidates, team_size)
               ELSE team1
  IN  Prefix(team2, team_size)

propose_mission(s, team_size, betrayals_required, shuffle1, shuffle2) ==
  IF is_spy(s)
  THEN Returned(ProposeAsSpy(s, team_size, betrayals_required, shuffle1, shuffle2))
  ELSE Returned(ProposeAsResistance(s, team_size))

(* ------------------------------- vote ---------------------------------- *)
RECURSIVE SumSuspicion(_, _)
SumSuspicion(suspicion, S) ==
  IF S = {} THEN 0
  ELSE LET p == CHOOSE x \in S : TRUE
       IN  suspicion[p] + SumSuspicion(suspicion, S \ {p})

(* num / den < bound, for den # 0, without leaving the integers            *)
QuotientBelow(num, den, bound) ==
  IF den > 0 THEN num < bound * den ELSE num > bound * den

(* the vote of a loyalist who peeks at the spy_list it was handed          *)
VoteAsResistance_peeks(s, mission, proposer) ==
  IF proposer \in s.known_spies \/ mission \cap s.known_spies # {}
     \/ mission \cap s.spy_list # {}
  THEN Returned(FALSE)
  ELSE LET total == SumSuspicion(s.suspicion, mission \ {s.player_number})
           divisor == Cardinality(mission) - 1
           suspicion_threshold == BaseThreshold + ThresholdStep * s.failed_missions
       IN  IF divisor = 0 THEN Raised("ZeroDivisionError")
           ELSE Returned(QuotientBelow(total, divisor, suspicion_threshold))

(* the vote that forgets to turn down a confirmed spy's proposal           *)
VoteAsResistance_trusts_proposer(s, mission, proposer) ==
  IF mission \cap s.known_spies # {}
  THEN Returned(FALSE)
  ELSE LET total == SumSuspicion(s.suspicion, mission \ {s.player_number})
           divisor == Cardinality(mission) - 1
           suspicion_threshold == BaseThreshold + ThresholdStep * s.failed_missions
       IN  IF divisor = 0 THEN Raised("ZeroDivisionError")
           ELSE Returned(QuotientBelow(total, divisor, suspicion_threshold))

(* lines 95-101 *)
VoteAsResistance(s, mission, proposer) ==
  IF proposer \in s.known_spies \/ mission \cap s.known_spies # {}
  THEN Returned(FALSE)
  ELSE LET total == SumSuspicion(s.suspicion, mission \ {s.player_number})
           divisor == Cardinality(mission) - 1
           suspicion_threshold == BaseThreshold + ThresholdStep * s.failed_missions
       IN  IF divisor = 0 THEN Raised("ZeroDivisionError")
           ELSE Returned(QuotientBelow(total, divisor, suspicion_threshold))

(* lines 88-93; draw is the outcome of random.random() < 0.6               *)
VoteAsSpy(s, mission, draw) ==
  IF mission \cap s.spy_list # {} THEN Returned(TRUE) ELSE Returned(draw)

vote(s, mission, proposer, draw) ==
  IF is_spy(s) THEN VoteAsSpy(s, mission, draw)
  ELSE VoteAsResistance(s, mission, proposer)

(* betray that needs both counters at the critical value                   *)
betray_both_critical(s, mission, proposer, betrayals_required, draw) ==
  IF ~ is_spy(s) THEN Returned(FALSE)
  ELSE IF s.failed_missions = Critical /\ s.successful_missions = Critical
  THEN Returned(TRUE)
  ELSE LET spy_count_in_mission == Cardinality(mission \cap s.spy_list)
           non_spy_count_in_mission == Cardinality(mission \ s.spy_list)
       IN  IF non_spy_count_in_mission >= betrayals_required
              /\ spy_count_in_mission >= 1
           THEN Returned(TRUE)
           ELSE Returned(draw)

(* betray that looks at the critical counters before the role              *)
betray_role_checked_late(s, mission, proposer, betrayals_required, draw) ==
  IF s.failed_missions = Critical \/ s.successful_missions = Critical
  THEN Returned(TRUE)
  ELSE IF ~ is_spy(s) THEN Returned(FALSE)
  ELSE LET spy_count_in_mission == Cardinality(mission \cap s.spy_list)
           non_spy_count_in_mission == Cardinality(mission \ s.spy_list)
       IN  IF non_spy_count_in_mission >= betrayals_required
              /\ spy_count_in_mission >= 1
           THEN Returned(TRUE)
           ELSE Returned(draw)

(* ------------------------------ betray --------------------------------- *)
(* lines 111-128; draw is the outcome of random.random() < 0.3             *)
betray(s, mission, proposer, betrayals_required, draw) ==
  IF ~ is_spy(s) THEN Returned(FALSE)
  ELSE IF s.failed_missions = Critical \/ s.successful_missions = Critical
  THEN Returned(TRUE)
  ELSE LET spy_count_in_mission == Cardinality(mission \cap s.spy_list)
           non_spy_count_in_mission == Cardinality(mission \ s.spy_list)
       IN  IF non_spy_count_in_mission >= betrayals_required
              /\ spy_count_in_mission >= 1
           THEN Returned(TRUE)
           ELSE Returned(draw)

(* vote_outcome without the min(1.0, ...) of line 109                      *)
vote_outcome_unclamped(s, mission, proposer, votes) ==
  [ s EXCEPT
      !.vote_history =
          Append(@, [mission |-> mission, proposer |-> proposer, votes |-> votes]),
      !.suspicion =
          [ p \in DOMAIN @ |->
              IF p \in DOMAIN votes /\ votes[p] /\ p # s.player_number
                 /\ p \in mission
              THEN @[p] + VoteNudge
              ELSE @[p] ] ]

(* vote_outcome that confirms a player whose score it carries past 0.7     *)
vote_outcome_confirms(s, mission, proposer, votes) ==
  LET nudged == [ p \in DOMAIN s.suspicion |->
                    IF p \in DOMAIN votes /\ votes[p] /\ p # s.player_number
                       /\ p \in mission
                    THEN Min(One, s.suspicion[p] + VoteNudge)
                    ELSE s.suspicion[p] ]
  IN  [ s EXCEPT
          !.vote_history =
              Append(@, [mission |-> mission, proposer |-> proposer, votes |-> votes]),
          !.suspicion = nudged,
          !.known_spies =
              @ \cup { p \in DOMAIN nudged :
                         nudged[p] > ConfirmAbove /\ nudged[p] # s.suspicion[p] } ]

(* ---------------------------- vote_outcome ----------------------------- *)
(* lines 103-109; votes is indexed by player                               *)
vote_outcome(s, mission, proposer, votes) ==
  [ s EXCEPT
      !.vote_history =
          Append(@, [mission |-> mission, proposer |-> proposer, votes |-> votes]),
      !.suspicion =
          [ p \in DOMAIN @ |->
              IF p \in DOMAIN votes /\ votes[p] /\ p # s.player_number
                 /\ p \in mission
              THEN Min(One, @[p] + VoteNudge)
              ELSE @[p] ] ]

(* --------------------------- mission_outcome --------------------------- *)
(* line 139 *)
PotentialSpies(s, mission) ==
  { p \in mission : p # s.player_number /\ p \notin s.known_spies }

(* line 141: num_betrayals / len(potential_spies), in sixtieths            *)
Increment(num_betrayals, count) == (num_betrayals * One) \div count

(* the failure update that shares the betrayals among the whole team       *)
MissionFailed_whole_team(s, mission, num_betrayals) ==
  LET potential_spies == PotentialSpies(s, mission)
      raised == [ p \in DOMAIN s.suspicion |->
                    IF p \in potential_spies
                    THEN Min(One, s.suspicion[p]
                                  + Increment(num_betrayals, Cardinality(mission)))
                    ELSE s.suspicion[p] ]
  IN  IF Cardinality(potential_spies) > 0
      THEN [ s EXCEPT
               !.suspicion = raised,
               !.known_spies =
                   @ \cup { p \in potential_spies : raised[p] > ConfirmAbove } ]
      ELSE s

(* lines 137-146 *)
MissionFailed(s, mission, num_betrayals) ==
  LET potential_spies == PotentialSpies(s, mission)
      raised == [ p \in DOMAIN s.suspicion |->
                    IF p \in potential_spies
                    THEN Min(One, s.suspicion[p]
                                  + Increment(num_betrayals,
                                              Cardinality(potential_spies)))
                    ELSE s.suspicion[p] ]
  IN  IF Cardinality(potential_spies) > 0
      THEN [ s EXCEPT
               !.suspicion = raised,
               !.known_spies =
                   @ \cup { p \in potential_spies : raised[p] > ConfirmAbove } ]
      ELSE s

(* the success update that takes the team's players off known_spies        *)
MissionSucceeded_forgets(s, mission) ==
  [ s EXCEPT
      !.suspicion =
          [ p \in DOMAIN @ |->
              IF p \in mission /\ p # s.player_number
              THEN Max(0, @[p] - SuccessDrop)
              ELSE @[p] ],
      !.known_spies = @ \ mission ]

(* the success update that clears the score of every player of the team,   *)
(* confirmed or not                                                        *)
MissionSucceeded_exonerates(s, mission) ==
  [ s EXCEPT
      !.suspicion =
          [ p \in DOMAIN @ |->
              IF p \in mission /\ p # s.player_number THEN 0 ELSE @[p] ] ]

(* lines 147-151 *)
MissionSucceeded(s, mission) ==
  [ s EXCEPT
      !.suspicion =
          [ p \in DOMAIN @ |->
              IF p \in mission /\ p # s.player_number
                 /\ p \notin s.known_spies
              THEN Max(0, @[p] - SuccessDrop)
              ELSE @[p] ] ]

(* mission_outcome whose spy returns before the record is appended         *)
mission_outcome_spy_unlogged(s, mission, proposer, num_betrayals, mission_success) ==
  LET logged ==
        [ s EXCEPT !.mission_history =
            Append(@, [ mission |-> mission, proposer |-> proposer,
                        num_betrayals |-> num_betrayals,
                        success |-> mission_success ]) ]
  IN  IF is_spy(s) THEN s
      ELSE IF ~ mission_success THEN MissionFailed(logged, mission, num_betrayals)
      ELSE MissionSucceeded(logged, mission)

(* mission_outcome without the early return of line 135                    *)
mission_outcome_spy_tracks(s, mission, proposer, num_betrayals, mission_success) ==
  LET logged ==
        [ s EXCEPT !.mission_history =
            Append(@, [ mission |-> mission, proposer |-> proposer,
                        num_betrayals |-> num_betrayals,
                        success |-> mission_success ]) ]
  IN  IF ~ mission_success THEN MissionFailed(logged, mission, num_betrayals)
      ELSE MissionSucceeded(logged, mission)

(* lines 130-151 *)
mission_outcome(s, mission, proposer, num_betrayals, mission_success) ==
  LET logged ==
        [ s EXCEPT !.mission_history =
            Append(@, [ mission |-> mission, proposer |-> proposer,
                        num_betrayals |-> num_betrayals,
                        success |-> mission_success ]) ]
  IN  IF is_spy(logged) THEN logged
      ELSE IF ~ mission_success THEN MissionFailed(logged, mission, num_betrayals)
      ELSE MissionSucceeded(logged, mission)

(* ---------------------------- round_outcome ---------------------------- *)
(* lines 153-156 *)
round_outcome(s, rounds_complete, missions_failed) ==
  [ s EXCEPT !.successful_missions = rounds_complete - missions_failed,
             !.failed_missions = missions_failed ]

(* ----------------------------- game_outcome ---------------------------- *)
(* lines 161-178: the change one recorded mission makes to the score of    *)
(* one of its players (the players of a mission are distinct, so each      *)
(* key is touched once per mission).                                       *)
Reinforce(s, suspicion, m, player, spies_win, spies) ==
  IF is_spy(s)
  THEN IF spies_win /\ ~ m.success /\ player \in s.spy_list
          /\ player # s.player_number
       THEN Max(0, suspicion[player] - SpyAdjust)
       ELSE IF ~ spies_win /\ m.success /\ player \in s.spy_list
               /\ player # s.player_number
       THEN Min(One, suspicion[player] + SpyAdjust)
       ELSE suspicion[player]
  ELSE IF spies_win
       THEN IF ~ m.success /\ player # s.player_number
               /\ player \notin s.known_spies
            THEN Min(One, suspicion[player] + LoyalBlame)
            ELSE suspicion[player]
       ELSE IF player \notin spies /\ player # s.player_number
            THEN Max(0, suspicion[player] - Exonerate)
            ELSE suspicion[player]

(* line 160: for mission in self.mission_history, from index i on          *)
RECURSIVE ReinforceFrom(_, _, _, _, _)
ReinforceFrom(s, suspicion, i, spies_win, spies) ==
  IF i > Len(s.mission_history) THEN suspicion
  ELSE LET m == s.mission_history[i]
           next == [ p \in DOMAIN suspicion |->
                       IF p \in m.mission
                       THEN Reinforce(s, suspicion, m, p, spies_win, spies)
                       ELSE suspicion[p] ]
       IN  ReinforceFrom(s, next, i + 1, spies_win, spies)

(* game_outcome that takes its role from the spies it is shown             *)
game_outcome_relearns_role(s, spies_win, spies) ==
  [ s EXCEPT !.suspicion = ReinforceFrom(s, @, 1, spies_win, spies),
             !.is_spy_player = (s.player_number \in spies) ]

(* lines 158-178 *)
game_outcome(s, spies_win, spies) ==
  [ s EXCEPT !.suspicion = ReinforceFrom(s, @, 1, spies_win, spies) ]

(* ------------------ the orchestrator's calls --------------------------- *)
(* The orchestrator invokes one callback at a time and waits for it to     *)
(* return (call-and-return, no suspension).  call holds the callback in    *)
(* progress: its name, the instances it was invoked on, its arguments and  *)
(* the instances' state on entry; ret holds what each instance hands back. *)
(* Return gives control back to the orchestrator.  stage is the            *)
(* orchestrator's place in an instance's lifecycle: new_game starts a      *)
(* game, game_outcome ends it, and only a new_game follows a game_outcome. *)
IdleCall == [op |-> "idle"]

Idle == call.op = "idle"

NoReturns == [i \in Instances |-> NoResult]

Playing(I) == \A i \in I : stage[i] = "playing"

Lead(I) == agents[CHOOSE i \in I : TRUE]

Invoke(op, I, args) == [op |-> op, on |-> I, args |-> args, before |-> agents]

(* instance state kept on the class, where every instance sees the write   *)
Mutate_on_class(I, after) ==
  /\ agents' = [i \in Instances |-> after[IF i \in I THEN i ELSE CHOOSE j \in I : TRUE]]
  /\ ret' = NoReturns

(* a callback with no return value, run on the instances I                 *)
Mutate(I, after) ==
  /\ agents' = [i \in Instances |-> IF i \in I THEN after[i] ELSE agents[i]]
  /\ ret' = NoReturns

(* a callback that only answers, run on the instances I                    *)
Answer(I, result) ==
  /\ agents' = agents
  /\ ret' = [i \in Instances |-> IF i \in I THEN result[i] ELSE NoResult]

Logged(s) == Len(s.vote_history) + Len(s.mission_history)

Init ==
  /\ agents = [i \in Instances |-> InitAgent]
  /\ stage = [i \in Instances |-> "constructed"]
  /\ call = IdleCall
  /\ ret = NoReturns

Return ==
  /\ ~ Idle
  /\ call' = IdleCall
  /\ ret' = NoReturns
  /\ UNCHANGED <<agents, stage>>

NewGame(I, n, own, lists) ==
  /\ Idle
  /\ call' = Invoke("new_game", I,
                    [number_of_players |-> n, player_number |-> own,
                     spy_list |-> lists])
  /\ Mutate(I, [i \in I |-> new_game(agents[i], n, own, lists[i])])
  /\ stage' = [i \in Instances |-> IF i \in I THEN "playing" ELSE stage[i]]

IsSpy(I) ==
  /\ Idle /\ Playing(I)
  /\ call' = Invoke("is_spy", I, <<>>)
  /\ Answer(I, [i \in I |-> Returned(is_spy(agents[i]))])
  /\ UNCHANGED stage

ProposeMission(I, team_size, betrayals_required, shuffle1, shuffle2) ==
  /\ Idle /\ Playing(I)
  /\ call' = Invoke("propose_mission", I,
                    [team_size |-> team_size,
                     betrayals_required |-> betrayals_required])
  /\ Answer(I, [i \in I |-> propose_mission(agents[i], team_size,
                                          betrayals_required, shuffle1, shuffle2)])
  /\ UNCHANGED stage

(* vote never reads its betrayals_required argument, which is left out     *)
Vote(I, mission, proposer, draw) ==
  /\ Idle /\ Playing(I)
  /\ call' = Invoke("vote", I, [mission |-> mission, proposer |-> proposer])
  /\ Answer(I, [i \in I |-> vote(agents[i], mission, proposer, draw)])
  /\ UNCHANGED stage

VoteOutcome(I, mission, proposer, votes) ==
  /\ Idle /\ Playing(I)
  /\ \A i \in I : Logged(agents[i]) < MaxLog
  /\ call' = Invoke("vote_outcome", I,
                    [mission |-> mission, proposer |-> proposer, votes |-> votes])
  /\ Mutate(I, [i \in I |-> vote_outcome(agents[i], mission, proposer, votes)])
  /\ UNCHANGED stage

Betray(I, mission, proposer, betrayals_required, draw) ==
  /\ Idle /\ Playing(I)
  /\ call' = Invoke("betray", I,
                    [mission |-> mission, proposer |-> proposer,
                     betrayals_required |-> betrayals_required])
  /\ Answer(I, [i \in I |-> betray(agents[i], mission, proposer,
                                 betrayals_required, draw)])
  /\ UNCHANGED stage

MissionOutcome(I, mission, proposer, num_betrayals, mission_success) ==
  /\ Idle /\ Playing(I)
  /\ \A i \in I : Logged(agents[i]) < MaxLog
  /\ call' = Invoke("mission_outcome", I,
                    [mission |-> mission, proposer |-> proposer,
                     num_betrayals |-> num_betrayals,
                     mission_success |-> mission_success])
  /\ Mutate(I, [i \in I |-> mission_outcome(agents[i], mission, proposer,
                                          num_betrayals, mission_success)])
  /\ UNCHANGED stage

RoundOutcome(I, rounds_complete, missions_failed) ==
  /\ Idle /\ Playing(I)
  /\ call' = Invoke("round_outcome", I,
                    [rounds_complete |-> rounds_complete,
                     missions_failed |-> missions_failed])
  /\ Mutate(I, [i \in I |-> round_outcome(agents[i], rounds_complete,
                                        missions_failed)])
  /\ UNCHANGED stage

GameOutcome(I, spies_win, spies) ==
  /\ Idle /\ Playing(I)
  /\ call' = Invoke("game_outcome", I, [spies_win |-> spies_win, spies |-> spies])
  /\ Mutate(I, [i \in I |-> game_outcome(agents[i], spies_win, spies)])
  /\ stage' = [i \in Instances |-> IF i \in I THEN "over" ELSE stage[i]]

(* ----------------- what the orchestrator passes in --------------------- *)
Teams(n) == (SUBSET Players(n)) \ {{}}

VoteVectors(n) == [Players(n) -> BOOLEAN]

Owns(n) == { p \in Players(n) : p <= MaxOwn }

SpyLists(n) == SUBSET { p \in Players(n) : p <= MaxSpy }

Opponents(s) == Players(s.number_of_players) \ {s.player_number}

(* the random draws are made on the spy's paths only                       *)
Draws(s) == IF is_spy(s) THEN BOOLEAN ELSE {FALSE}

Shuffles1(s) == IF is_spy(s) THEN Shuffles(Opponents(s)) ELSE {<<>>}

Shuffles2(s) == IF is_spy(s) THEN Shuffles(Opponents(s) \ s.spy_list) ELSE {<<>>}

(* The outcome callbacks and betray are handed missions of at least two    *)
(* players, proposed by their lowest member; a mission succeeds unless     *)
(* the betrayals reach the number required.  vote is asked about every     *)
(* team and every proposer.                                                *)
Missions(n) == { m \in Teams(n) : Cardinality(m) >= 2 }

Leader(mission) == CHOOSE p \in mission : \A q \in mission : p <= q

(* the votes reported by vote_outcome: all approve, or all reject          *)
Ballots(n) == { [p \in Players(n) |-> b] : b \in BOOLEAN }

(* ------------- one instance, any sequence of callbacks ----------------- *)
Solo == {1}

CallNewGame ==
  \E n \in MinPlayers .. MaxPlayers : \E own \in Owns(n) :
    \E spy_list \in SpyLists(n) :
      NewGame(Solo, n, own, [i \in Solo |-> spy_list])

CallIsSpy == IsSpy(Solo)

CallProposeMission ==
  LET s == Lead(Solo) IN
  \E team_size \in 1 .. s.number_of_players : \E k \in 1 .. MaxK :
    \E shuffle1 \in Shuffles1(s) : \E shuffle2 \in Shuffles2(s) :
      ProposeMission(Solo, team_size, k, shuffle1, shuffle2)

CallVote ==
  LET s == Lead(Solo) IN
  \E mission \in Teams(s.number_of_players) :
    \E proposer \in Players(s.number_of_players) : \E draw \in Draws(s) :
      Vote(Solo, mission, proposer, draw)

CallVoteOutcome ==
  LET n == Lead(Solo).number_of_players IN
  \E mission \in Missions(n) : \E votes \in Ballots(n) :
    VoteOutcome(Solo, mission, Leader(mission), votes)

CallBetray ==
  LET s == Lead(Solo) IN
  \E mission \in Missions(s.number_of_players) : \E k \in 1 .. MaxK :
    \E draw \in Draws(s) : Betray(Solo, mission, Leader(mission), k, draw)

CallMissionOutcome ==
  LET n == Lead(Solo).number_of_players IN
  \E mission \in Missions(n) : \E num_betrayals \in 0 .. MaxBetrayals :
    \E k \in 1 .. MaxK :
      MissionOutcome(Solo, mission, Leader(mission), num_betrayals,
                     num_betrayals < k)

(* the orchestrator's tally of the missions played so far                  *)
CallRoundOutcome ==
  LET h == Lead(Solo).mission_history IN
  RoundOutcome(Solo, Len(h),
               Cardinality({ i \in DOMAIN h : ~ h[i].success }))

CallGameOutcome ==
  LET n == Lead(Solo).number_of_players IN
  \E spies_win \in BOOLEAN : \E spies \in SpyLists(n) :
    GameOutcome(Solo, spies_win, spies)

Next ==
  \/ CallNewGame
  \/ CallIsSpy
  \/ CallProposeMission
  \/ CallVote
  \/ CallVoteOutcome
  \/ CallBetray
  \/ CallMissionOutcome
  \/ CallRoundOutcome
  \/ CallGameOutcome
  \/ Return

Spec == Init /\ [][Next]_vars

(* ---- two loyalists told different spy lists, driven in lockstep ------- *)
Both == {1, 2}

PairNewGame ==
  \E n \in MinPlayers .. MaxPlayers : \E own \in Owns(n) :
    \E lists \in [Both -> { l \in SpyLists(n) : own \notin l }] :
      /\ lists[1] # lists[2]
      /\ NewGame(Both, n, own, lists)

PairIsSpy == IsSpy(Both)

PairProposeMission ==
  LET s == Lead(Both) IN
  \E team_size \in 1 .. s.number_of_players : \E k \in 1 .. MaxK :
    \E shuffle1 \in Shuffles1(s) : \E shuffle2 \in Shuffles2(s) :
      ProposeMission(Both, team_size, k, shuffle1, shuffle2)

PairVote ==
  LET s == Lead(Both) IN
  \E mission \in Teams(s.number_of_players) :
    \E proposer \in Players(s.number_of_players) : \E draw \in Draws(s) :
      Vote(Both, mission, proposer, draw)

PairVoteOutcome ==
  LET n == Lead(Both).number_of_players IN
  \E mission \in Missions(n) : \E votes \in Ballots(n) :
    VoteOutcome(Both, mission, Leader(mission), votes)

PairBetray ==
  LET s == Lead(Both) IN
  \E mission \in Missions(s.number_of_players) : \E k \in 1 .. MaxK :
    \E draw \in Draws(s) : Betray(Both, mission, Leader(mission), k, draw)

PairMissionOutcome ==
  LET n == Lead(Both).number_of_players IN
  \E mission \in Missions(n) : \E num_betrayals \in 0 .. MaxBetrayals :
    \E k \in 1 .. MaxK :
      MissionOutcome(Both, mission, Leader(mission), num_betrayals,
                     num_betrayals < k)

PairRoundOutcome ==
  LET h == Lead(Both).mission_history IN
  RoundOutcome(Both, Len(h),
               Cardinality({ i \in DOMAIN h : ~ h[i].success }))

PairGameOutcome ==
  LET n == Lead(Both).number_of_players IN
  \E spies_win \in BOOLEAN : \E spies \in SpyLists(n) :
    GameOutcome(Both, spies_win, spies)

PairNext ==
  \/ PairNewGame
  \/ PairIsSpy
  \/ PairProposeMission
  \/ PairVote
  \/ PairVoteOutcome
  \/ PairBetray
  \/ PairMissionOutcome
  \/ PairRoundOutcome
  \/ PairGameOutcome
  \/ Return

SpecPair == Init /\ [][PairNext]_vars

(* ------- two instances, each in a game of its own, interleaved --------- *)
(* The orchestrator calls one instance at a time, in any order.  Instance  *)
(* 1 is the first player of the smallest table and instance 2 the last     *)
(* allowed player of the largest, and the instances share the MaxLog       *)
(* outcomes between them.                                                  *)
One_(i) == {i}

TableOf(i) == IF i = 1 THEN MinPlayers ELSE MaxPlayers

SeatOf(i) == IF i = 1 THEN 0 ELSE MaxOwn

RoomToLog(i) == Logged(agents[i]) < MaxLog \div 2

EitherNewGame ==
  Idle /\ \E i \in Instances : \E spy_list \in SpyLists(TableOf(i)) :
    NewGame(One_(i), TableOf(i), SeatOf(i), [j \in One_(i) |-> spy_list])

EitherIsSpy == Idle /\ \E i \in Instances : IsSpy(One_(i))

EitherProposeMission ==
  Idle /\ \E i \in Instances :
    LET s == agents[i] IN
    \E team_size \in 1 .. s.number_of_players : \E k \in 1 .. MaxK :
      \E shuffle1 \in Shuffles1(s) : \E shuffle2 \in Shuffles2(s) :
        ProposeMission(One_(i), team_size, k, shuffle1, shuffle2)

EitherVote ==
  Idle /\ \E i \in Instances :
    LET s == agents[i] IN
    \E mission \in Missions(s.number_of_players) : \E draw \in Draws(s) :
      Vote(One_(i), mission, Leader(mission), draw)

EitherVoteOutcome ==
  Idle /\ \E i \in Instances :
    \E mission \in Missions(agents[i].number_of_players) :
      \E votes \in Ballots(agents[i].number_of_players) :
        /\ RoomToLog(i)
        /\ VoteOutcome(One_(i), mission, Leader(mission), votes)

EitherBetray ==
  Idle /\ \E i \in Instances :
    LET s == agents[i] IN
    \E mission \in Missions(s.number_of_players) : \E k \in 1 .. MaxK :
      \E draw \in Draws(s) : Betray(One_(i), mission, Leader(mission), k, draw)

EitherMissionOutcome ==
  Idle /\ \E i \in Instances :
    \E mission \in Missions(agents[i].number_of_players) :
      \E num_betrayals \in 0 .. MaxBetrayals : \E k \in 1 .. MaxK :
        /\ RoomToLog(i)
        /\ MissionOutcome(One_(i), mission, Leader(mission), num_betrayals,
                          num_betrayals < k)

EitherRoundOutcome ==
  Idle /\ \E i \in Instances :
    LET h == agents[i].mission_history IN
    RoundOutcome(One_(i), Len(h),
                 Cardinality({ x \in DOMAIN h : ~ h[x].success }))

EitherGameOutcome ==
  Idle /\ \E i \in Instances :
    \E spies_win \in BOOLEAN : \E spies \in SpyLists(agents[i].number_of_players) :
      GameOutcome(One_(i), spies_win, spies)

EitherNext ==
  \/ EitherNewGame
  \/ EitherIsSpy
  \/ EitherProposeMission
  \/ EitherVote
  \/ EitherVoteOutcome
  \/ EitherBetray
  \/ EitherMissionOutcome
  \/ EitherRoundOutcome
  \/ EitherGameOutcome
  \/ Return

SpecEither == Init /\ [][EitherNext]_vars

(* ------------- one instance at a larger table -------------------------- *)
(* A table of TablePlayers players, where a failed mission can carry up to *)
(* TableBetrayals betrayals: the callbacks that write the scores, and      *)
(* propose_mission, which reads them.                                      *)
TableNewGame ==
  \E own \in Owns(TablePlayers) : \E spy_list \in SpyLists(TablePlayers) :
    NewGame(Solo, TablePlayers, own, [i \in Solo |-> spy_list])

TableProposeMission ==
  LET s == Lead(Solo) IN
  Idle /\ \E team_size \in 1 .. s.number_of_players : \E k \in 1 .. MaxK :
    \E shuffle1 \in Shuffles1(s) : \E shuffle2 \in Shuffles2(s) :
      ProposeMission(Solo, team_size, k, shuffle1, shuffle2)

TableVoteOutcome ==
  LET n == Lead(Solo).number_of_players IN
  Idle /\ \E mission \in Missions(n) : \E votes \in Ballots(n) :
    VoteOutcome(Solo, mission, Leader(mission), votes)

TableMissionOutcome ==
  LET n == Lead(Solo).number_of_players IN
  Idle /\ \E mission \in Missions(n) : \E num_betrayals \in 0 .. TableBetrayals :
    \E k \in 1 .. MaxK :
      MissionOutcome(Solo, mission, Leader(mission), num_betrayals,
                     num_betrayals < k)

TableNext ==
  \/ TableNewGame
  \/ TableProposeMission
  \/ TableVoteOutcome
  \/ TableMissionOutcome
  \/ Return

SpecTable == Init /\ [][TableNext]_vars

(* ======================= the claims ==================================== *)
(* The callback in progress, and the state of instance i when it began.    *)
During(op) == call.op = op

Entry(i) == call.before[i]

Answered(i, v) == ~ ret[i].raised /\ ret[i].value = v

(* C1: after new_game and any sequence of outcome callbacks, for either    *)
(* role, every opponent p # self has 0.0 <= suspicion[p] <= 1.0.           *)
C1_SuspicionInRange ==
  \A i \in Instances : stage[i] # "constructed" =>
    \A p \in Opponents(agents[i]) :
      /\ p \in DOMAIN agents[i].suspicion
      /\ 0 <= agents[i].suspicion[p]
      /\ agents[i].suspicion[p] <= One

(* a vote_outcome whose nudge would have carried a score past 1.0          *)
C1_Witness ==
  /\ During("vote_outcome")
  /\ \E i \in call.on : \E p \in Opponents(agents[i]) :
       /\ p \in call.args.mission /\ call.args.votes[p]
       /\ Entry(i).suspicion[p] + VoteNudge > One
       /\ agents[i].suspicion[p] = One

(* C2: for both roles, propose_mission(teamSize, k) with                   *)
(* 1 <= teamSize <= numberOfPlayers returns exactly teamSize distinct      *)
(* player indices.                                                         *)
C2_ExactTeamSize ==
  During("propose_mission") =>
    \A i \in call.on :
      LET team == ret[i].value IN
      (1 <= call.args.team_size
         /\ call.args.team_size <= agents[i].number_of_players) =>
        /\ ~ ret[i].raised
        /\ Len(team) = call.args.team_size
        /\ \A a, b \in DOMAIN team : team[a] = team[b] => a = b

(* what a loyalist's propose_mission or vote has just answered, given its   *)
(* known_spies                                                             *)
C3_AfterCall(i) ==
  LET s == agents[i] IN
  ~ is_spy(s) =>
    /\ During("propose_mission") =>
         \A p \in s.known_spies : ~ InSeq(p, ret[i].value)
    /\ During("vote") =>
         ((call.args.proposer \in s.known_spies
             \/ call.args.mission \cap s.known_spies # {})
            => Answered(i, FALSE))

(* C3: for a loyalist, once p is in known_spies it stays there until the   *)
(* next new_game, propose_mission returns no team containing p, and vote   *)
(* rejects every team that contains p and every team proposed by p.        *)
C3_KnownSpiesShunned ==
  [][ call'.op # "idle" =>
        \A i \in call'.on :
          /\ C3_AfterCall(i)'
          /\ call'.op # "new_game" =>
               agents[i].known_spies \subseteq agents'[i].known_spies ]_vars

(* a loyalist turning down a clean team because a confirmed spy proposed   *)
(* it, and a loyalist proposing around a confirmed spy                     *)
C3_Witness ==
  /\ During("vote")
  /\ \E i \in call.on :
       /\ ~ is_spy(agents[i])
       /\ call.args.proposer \in agents[i].known_spies
       /\ call.args.mission \cap agents[i].known_spies = {}
       /\ Cardinality(call.args.mission) >= 2
       /\ Answered(i, FALSE)

(* C4: a loyalist's vote on a team with no member other than self, not     *)
(* proposed by a known infiltrator, returns approve and does not fault.    *)
C4_EmptyTeamApproved ==
  During("vote") =>
    \A i \in call.on :
      LET s == agents[i] IN
      (/\ ~ is_spy(s)
       /\ call.args.mission \ {s.player_number} = {}
       /\ call.args.proposer \notin s.known_spies)
        => Answered(i, TRUE)

(* C5: for a loyalist, with neither the proposer nor a team member in      *)
(* known_spies, vote approves iff the mean suspicion of the team members   *)
(* other than self is strictly below 0.3 + 0.1 * failed_missions, for      *)
(* every non-empty team of opponents, with or without self on the team.    *)
C5_MeanBelowThreshold ==
  During("vote") =>
    \A i \in call.on :
      LET s == agents[i]
          others == call.args.mission \ {s.player_number}
      IN
      (/\ ~ is_spy(s)
       /\ call.args.proposer \notin s.known_spies
       /\ call.args.mission \cap s.known_spies = {}
       /\ others # {})
        => /\ ~ ret[i].raised
           /\ ret[i].value
                <=> (SumSuspicion(s.suspicion, others)
                       < (BaseThreshold + ThresholdStep * s.failed_missions)
                           * Cardinality(others))

(* C6: new_game on an instance that holds an earlier game's state leaves   *)
(* both histories and known_spies empty, both counters 0, is_spy_player    *)
(* recomputed from the new arguments, and suspicion all zero over exactly  *)
(* the new opponents.                                                      *)
C6_NewGameResets ==
  During("new_game") =>
    \A i \in call.on :
      LET s == agents[i]
          n == call.args.number_of_players
          own == call.args.player_number
      IN
      /\ s.vote_history = <<>>
      /\ s.mission_history = <<>>
      /\ s.known_spies = {}
      /\ s.successful_missions = 0
      /\ s.failed_missions = 0
      /\ s.is_spy_player = (own \in call.args.spy_list[i])
      /\ DOMAIN s.suspicion = (0 .. (n - 1)) \ {own}
      /\ \A p \in DOMAIN s.suspicion : s.suspicion[p] = 0

(* a new_game with other parameters on an instance with both histories,    *)
(* a confirmed spy, raised scores and counters left from the game before   *)
C6_Witness ==
  /\ During("new_game")
  /\ \E i \in call.on :
       /\ Entry(i).vote_history # <<>>
       /\ Entry(i).mission_history # <<>>
       /\ Entry(i).known_spies # {}
       /\ Entry(i).failed_missions > 0
       /\ Entry(i).number_of_players # call.args.number_of_players
       /\ Entry(i).player_number # call.args.player_number
       /\ Entry(i).is_spy_player # agents[i].is_spy_player

(* C8: for a loyalist, a failed mission with E = the team members that are *)
(* not self and not confirmed on entry: if E is non-empty every p in E     *)
(* gets min(1.0, old + betrayalCount / |E|) and is confirmed exactly when  *)
(* the new score exceeds 0.7, every other score is unchanged; if E is      *)
(* empty, suspicion and known_spies are unchanged.                         *)
C8_FailureSharesBlame ==
  During("mission_outcome") =>
    \A i \in call.on :
      LET old == Entry(i)
          new == agents[i]
          E == { p \in call.args.mission :
                   p # old.player_number /\ p \notin old.known_spies }
      IN
      (~ is_spy(old) /\ ~ call.args.mission_success) =>
        IF E # {}
        THEN /\ \A p \in E :
                  /\ new.suspicion[p] * Cardinality(E)
                       = Min(One * Cardinality(E),
                             old.suspicion[p] * Cardinality(E)
                               + call.args.num_betrayals * One)
                  /\ p \in new.known_spies <=> new.suspicion[p] > ConfirmAbove
             /\ \A p \in DOMAIN old.suspicion \ E :
                  /\ new.suspicion[p] = old.suspicion[p]
                  /\ p \in new.known_spies <=> p \in old.known_spies
             /\ DOMAIN new.suspicion = DOMAIN old.suspicion
        ELSE /\ new.suspicion = old.suspicion
             /\ new.known_spies = old.known_spies

(* Scenario B: one betrayal on a team with two unconfirmed opponents       *)
(* raises each of them by 0.5                                              *)
C8_Witness ==
  /\ During("mission_outcome")
  /\ ~ call.args.mission_success
  /\ call.args.num_betrayals = 1
  /\ \E i \in call.on : \E p, q \in Opponents(agents[i]) :
       /\ ~ is_spy(agents[i])
       /\ p # q /\ {p, q} \subseteq call.args.mission
       /\ Entry(i).player_number \in call.args.mission
       /\ Entry(i).known_spies = {}
       /\ 2 * (agents[i].suspicion[p] - Entry(i).suspicion[p]) = One
       /\ 2 * (agents[i].suspicion[q] - Entry(i).suspicion[q]) = One

(* C9: an infiltrator's betray returns true whenever failed_missions == 2  *)
(* or successful_missions == 2, whatever the team, the proposer,           *)
(* betrayalsRequired and the random draw.                                  *)
C9_CriticalBetrayal ==
  During("betray") =>
    \A i \in call.on :
      (/\ is_spy(agents[i])
       /\ \/ agents[i].failed_missions = 2
          \/ agents[i].successful_missions = 2)
        => Answered(i, TRUE)

(* an infiltrator at two failed missions betraying on a team that holds    *)
(* fewer loyalists than betrayals required                                 *)
C9_Witness ==
  /\ During("betray")
  /\ \E i \in call.on :
       /\ is_spy(agents[i])
       /\ agents[i].failed_missions = 2
       /\ Cardinality(call.args.mission \ agents[i].spy_list)
            < call.args.betrayals_required
       /\ Answered(i, TRUE)

(* C10: a loyalist's betray returns false in every state, for every team,  *)
(* proposer and betrayalsRequired, and changes no agent state.             *)
C10_LoyalistNeverBetrays ==
  During("betray") =>
    \A i \in call.on :
      ~ is_spy(Entry(i)) =>
        /\ Answered(i, FALSE)
        /\ agents[i] = Entry(i)

(* a loyalist asked to betray with two missions already failed             *)
C10_Witness ==
  /\ During("betray")
  /\ \E i \in call.on :
       /\ ~ is_spy(agents[i])
       /\ agents[i].failed_missions = 2
       /\ Answered(i, FALSE)

(* C7: two loyalists started with the same numberOfPlayers and own index   *)
(* but different infiltratorIndices, and driven by the same callbacks,     *)
(* return the same results and hold the same suspicion and known_spies     *)
(* after every step.                                                       *)
C7_RoleBlind ==
  stage[1] # "constructed" =>
    /\ ~ is_spy(agents[1]) /\ ~ is_spy(agents[2])
    /\ agents[1].suspicion = agents[2].suspicion
    /\ agents[1].known_spies = agents[2].known_spies
    /\ ret[1].raised = ret[2].raised
    /\ ret[1].value = ret[2].value

(* both approve a team holding a player that only one of them was told is  *)
(* a spy, with a spy already confirmed by each                             *)
C7_Witness ==
  /\ During("vote")
  /\ call.on = Both
  /\ agents[1].spy_list # agents[2].spy_list
  /\ \E p \in call.args.mission :
       p \in agents[1].spy_list <=> p \notin agents[2].spy_list
  /\ Answered(1, TRUE) /\ Answered(2, TRUE)

(* C11: between one new_game and the next, no callback (propose_mission,   *)
(* vote, vote_outcome, betray, mission_outcome, round_outcome,             *)
(* game_outcome) removes a player from known_spies, not even a successful  *)
(* mission or a loyalist win that exonerates that player.                  *)
C11_KnownSpiesAppendOnly ==
  (~ Idle /\ ~ During("new_game")) =>
    \A i \in call.on : Entry(i).known_spies \subseteq agents[i].known_spies

(* a loyalist win whose game_outcome lowers the score of a confirmed       *)
(* player who was no spy, and leaves that player confirmed                 *)
C11_Witness ==
  /\ During("game_outcome")
  /\ ~ call.args.spies_win
  /\ \E i \in call.on : \E p \in Entry(i).known_spies :
       /\ p \notin call.args.spies
       /\ agents[i].suspicion[p] < Entry(i).suspicion[p]
       /\ p \in agents[i].known_spies

(* C12: is_spy_player, the value is_spy returns, is set by new_game to     *)
(* (own index in spy_list) and is changed by no other callback; is_spy     *)
(* itself changes no state.                                                *)
C12_RoleFixed ==
  /\ \A i \in Instances :
       agents[i].is_spy_player
         = (stage[i] # "constructed"
              /\ agents[i].player_number \in agents[i].spy_list)
  /\ ~ Idle =>
       \A i \in call.on :
         /\ During("new_game") =>
              agents[i].is_spy_player
                = (call.args.player_number \in call.args.spy_list[i])
         /\ ~ During("new_game") =>
              agents[i].is_spy_player = Entry(i).is_spy_player
         /\ During("is_spy") =>
              /\ agents[i] = Entry(i)
              /\ Answered(i, Entry(i).is_spy_player)

(* an infiltrator still answering is_spy with true once the game is over   *)
(* and it was shown a spy set without its own index                        *)
C12_Witness ==
  /\ During("game_outcome")
  /\ \E i \in call.on :
       /\ Entry(i).is_spy_player
       /\ Entry(i).player_number \notin call.args.spies
       /\ Entry(i).mission_history # <<>>
       /\ agents[i].is_spy_player

(* C13: for both roles, each vote_outcome appends exactly one record       *)
(* {team, proposer, votes} to the end of vote_history and each             *)
(* mission_outcome one record {team, proposer, betrayalCount, success} to  *)
(* the end of mission_history; no other callback but new_game changes      *)
(* either history.                                                         *)
C13_HistoriesAppendOnly ==
  (~ Idle /\ ~ During("new_game")) =>
    \A i \in call.on :
      /\ agents[i].vote_history
           = IF During("vote_outcome")
             THEN Append(Entry(i).vote_history,
                         [ mission |-> call.args.mission,
                           proposer |-> call.args.proposer,
                           votes |-> call.args.votes ])
             ELSE Entry(i).vote_history
      /\ agents[i].mission_history
           = IF During("mission_outcome")
             THEN Append(Entry(i).mission_history,
                         [ mission |-> call.args.mission,
                           proposer |-> call.args.proposer,
                           num_betrayals |-> call.args.num_betrayals,
                           success |-> call.args.mission_success ])
             ELSE Entry(i).mission_history

(* an infiltrator's mission_outcome adding a second record behind the      *)
(* first                                                                   *)
C13_Witness ==
  /\ During("mission_outcome")
  /\ \E i \in call.on :
       /\ is_spy(agents[i])
       /\ Len(Entry(i).mission_history) = 1
       /\ Len(agents[i].mission_history) = 2
       /\ agents[i].mission_history[1] = Entry(i).mission_history[1]

C15_Precedes(s, p, q) ==
  \/ s.suspicion[p] < s.suspicion[q]
  \/ s.suspicion[p] = s.suspicion[q] /\ p < q

(* the opponents recorded on a failed mission of mission_history           *)
C15_OnFailedMission(s) ==
  { p \in Opponents(s) :
      \E x \in DOMAIN s.mission_history :
        ~ s.mission_history[x].success /\ p \in s.mission_history[x].mission }

(* C15: a loyalist's propose_mission returns self first, followed by       *)
(* opponents such that (1) an opponent who was on a failed mission is      *)
(* chosen only if every unconfirmed opponent with no failed mission is     *)
(* chosen, and (2) within the clean group and within the relaxed group     *)
(* every chosen opponent precedes every unchosen unconfirmed opponent of   *)
(* that group in the order (suspicion ascending, then lower index).  In a  *)
(* fresh 5-player game with self = 0, propose_mission(2, 1) is [0, 1].     *)
C15_LoyalistProposal ==
  /\ propose_mission(new_game(InitAgent, 5, 0, {}), 2, 1, <<>>, <<>>)
       = Returned(<<0, 1>>)
  /\ During("propose_mission") =>
       \A i \in call.on :
         LET s == agents[i]
             team == ret[i].value
             chosen == { team[x] : x \in 2 .. Len(team) }
             clean == (Opponents(s) \ s.known_spies) \ C15_OnFailedMission(s)
             relaxed == (Opponents(s) \ s.known_spies) \cap C15_OnFailedMission(s)
         IN
         ~ is_spy(s) =>
           /\ ~ ret[i].raised
           /\ Len(team) >= 1 /\ team[1] = s.player_number
           /\ chosen \subseteq Opponents(s)
           /\ chosen \cap C15_OnFailedMission(s) # {} => clean \subseteq chosen
           /\ \A p \in clean \cap chosen : \A q \in clean \ chosen :
                C15_Precedes(s, p, q)
           /\ \A p \in relaxed \cap chosen : \A q \in relaxed \ chosen :
                C15_Precedes(s, p, q)

(* a proposal that seats a clean opponent of higher index, then the less   *)
(* suspected of two opponents of a failed mission, and leaves the other    *)
(* out                                                                     *)
C15_Witness ==
  /\ During("propose_mission")
  /\ \E i \in call.on :
       LET s == agents[i]
           team == ret[i].value
       IN
       /\ ~ is_spy(s)
       /\ Len(team) = 3
       /\ team[2] \notin C15_OnFailedMission(s)
       /\ team[3] \in C15_OnFailedMission(s)
       /\ team[3] < team[2]
       /\ \E q \in C15_OnFailedMission(s) \ s.known_spies :
            /\ ~ InSeq(q, team)
            /\ q < team[3]
            /\ s.suspicion[team[3]] < s.suspicion[q]

(* C16: for every outcome of the shuffles, an infiltrator's                *)
(* propose_mission(teamSize, betrayalsRequired) with betrayalsRequired     *)
(* >= 1 returns a team with at most betrayalsRequired members of spy_list, *)
(* self included.                                                          *)
C16_SpiesSeated ==
  During("propose_mission") =>
    \A i \in call.on :
      LET s == agents[i]
          team == ret[i].value
      IN
      (is_spy(s) /\ call.args.betrayals_required >= 1) =>
        /\ ~ ret[i].raised
        /\ Cardinality({ x \in DOMAIN team : team[x] \in s.spy_list })
             <= call.args.betrayals_required

(* an infiltrator with a fellow spy at the table leaving a seat empty      *)
(* rather than seating a second spy when one betrayal is required          *)
C16_Witness ==
  /\ During("propose_mission")
  /\ call.args.betrayals_required = 1
  /\ \E i \in call.on :
       LET s == agents[i]
           team == ret[i].value
       IN
       /\ is_spy(s)
       /\ s.spy_list \ {s.player_number} # {}
       /\ call.args.team_size = s.number_of_players
       /\ Len(team) < call.args.team_size
       /\ \A x \in DOMAIN team : team[x] \in s.spy_list => team[x] = s.player_number

(* C17: vote_outcome(team, proposer, votes) sets suspicion[p] to           *)
(* min(1.0, old + 0.05) for exactly the players p # self that approved and *)
(* are on the team; every other score, known_spies (even when a score      *)
(* rises above 0.7), mission_history and the mission counters are          *)
(* unchanged.                                                              *)
C17_VoteOutcomeFrame ==
  During("vote_outcome") =>
    \A i \in call.on :
      LET old == Entry(i)
          new == agents[i]
          nudged == { p \in call.args.mission :
                        p # old.player_number /\ call.args.votes[p] }
      IN
      /\ DOMAIN new.suspicion = DOMAIN old.suspicion
      /\ \A p \in DOMAIN old.suspicion :
           new.suspicion[p]
             = IF p \in nudged
               THEN Min(One, old.suspicion[p] + VoteNudge)
               ELSE old.suspicion[p]
      /\ new.known_spies = old.known_spies
      /\ new.mission_history = old.mission_history
      /\ new.successful_missions = old.successful_missions
      /\ new.failed_missions = old.failed_missions

(* an approving team member carried from below 0.7 to above it by the      *)
(* nudge and not confirmed, next to a player whose score stays put         *)
C17_Witness ==
  /\ During("vote_outcome")
  /\ \E i \in call.on : \E p, q \in Opponents(agents[i]) :
       /\ ~ is_spy(agents[i])
       /\ p \in call.args.mission /\ call.args.votes[p]
       /\ Entry(i).suspicion[p] <= ConfirmAbove
       /\ agents[i].suspicion[p] > ConfirmAbove
       /\ p \notin agents[i].known_spies
       /\ q \notin call.args.mission
       /\ agents[i].suspicion[q] = Entry(i).suspicion[q]

(* C18: an infiltrator's mission_outcome, for either success value and any *)
(* betrayalCount, changes only mission_history; an infiltrator's           *)
(* known_spies is empty in every reachable state.                          *)
C18_SpyKeepsNoScores ==
  /\ \A i \in Instances : is_spy(agents[i]) => agents[i].known_spies = {}
  /\ During("mission_outcome") =>
       \A i \in call.on :
         is_spy(Entry(i)) =>
           agents[i] = [ Entry(i) EXCEPT
                           !.mission_history = agents[i].mission_history ]

(* an infiltrator told of a failed mission with one betrayal and one       *)
(* other player on it, whose score stays where an approving vote left it   *)
C18_Witness ==
  /\ During("mission_outcome")
  /\ ~ call.args.mission_success
  /\ call.args.num_betrayals >= 1
  /\ \E i \in call.on : \E p \in Opponents(agents[i]) :
       /\ is_spy(agents[i])
       /\ call.args.mission = {agents[i].player_number, p}
       /\ agents[i].suspicion[p] = VoteNudge
       /\ agents[i].mission_history # Entry(i).mission_history

(* C19: for a loyalist, in every state reached from new_game by            *)
(* vote_outcome, mission_outcome and round_outcome calls, before           *)
(* game_outcome, every player of known_spies has suspicion strictly above  *)
(* 0.7.                                                                    *)
C19_ConfirmedStayAbove ==
  \A i \in Instances :
    (stage[i] = "playing" /\ ~ is_spy(agents[i])) =>
      \A p \in agents[i].known_spies :
        /\ p \in DOMAIN agents[i].suspicion
        /\ agents[i].suspicion[p] > ConfirmAbove

(* a successful mission with a confirmed player on it, whose score is not  *)
(* lowered                                                                 *)
C19_Witness ==
  /\ During("mission_outcome")
  /\ call.args.mission_success
  /\ \E i \in call.on : \E p \in Entry(i).known_spies :
       /\ stage[i] = "playing"
       /\ ~ is_spy(agents[i])
       /\ p \in call.args.mission
       /\ agents[i].suspicion[p] = Entry(i).suspicion[p]
       /\ agents[i].suspicion[p] > ConfirmAbove

(* C20: for both roles and every outcome of the shuffles, the team         *)
(* returned by propose_mission(teamSize, k) with teamSize >= 1 contains    *)
(* the agent's own index, no index twice, only indices in                  *)
(* 0..numberOfPlayers-1, and at most teamSize members.                     *)
C20_TeamWellFormed ==
  During("propose_mission") =>
    \A i \in call.on :
      LET s == agents[i]
          team == ret[i].value
      IN
      call.args.team_size >= 1 =>
        /\ ~ ret[i].raised
        /\ InSeq(s.player_number, team)
        /\ \A a, b \in DOMAIN team : team[a] = team[b] => a = b
        /\ \A a \in DOMAIN team : team[a] \in 0 .. (s.number_of_players - 1)
        /\ Len(team) <= call.args.team_size

(* a loyalist asked for a full table with a confirmed spy at it, who       *)
(* returns a shorter team with a second opponent seated once               *)
C20_Witness ==
  /\ During("propose_mission")
  /\ \E i \in call.on :
       LET s == agents[i]
           team == ret[i].value
       IN
       /\ ~ is_spy(s)
       /\ s.known_spies # {}
       /\ call.args.team_size = s.number_of_players
       /\ Len(team) = 2
       /\ Len(team) < call.args.team_size

====
